---- MODULE Spec2Model ----
(***************************************************************************)
(* A model of get-memberships.py: the resolution of the root group, the    *)
(* recursive walk over its subgroups, the fetch of the memberships of      *)
(* every group and project in scope, and the report (narrative lines, the  *)
(* trailer and the JSON document).                                         *)
(*                                                                         *)
(* The program is sequential.  pc is its position; one action models one   *)
(* straight-line section or one iteration of one of its two outer loops.   *)
(* The GitLab server is the read-only variable gl.                         *)
(*                                                                         *)
(* A Python str is a sequence of character codes, so that concatenation,   *)
(* equality and the ordering used by sorted() are computed, not assumed.   *)
(***************************************************************************)
EXTENDS Integers, Sequences, FiniteSets, TLC

VARIABLES
    gl,               \* the GitLab server: groups, projects, their listings
    group,            \* --group
    group_id_opt,     \* --group-id as given, 0 when it is not
    group_id,         \* the name group_id (re-assigned at line 70)
    user,             \* --user
    shared_group,     \* --shared-group
    json_output,      \* --json-output
    verbose,          \* --verbose
    pc,               \* position of the program
    base_group,       \* the root object, Unbound until assigned
    groups_in_scope,  \* line 78
    gi,               \* index of the loop of line 85
    memberships,      \* dict of line 81, in insertion order
    shares,           \* dict of line 82, in insertion order
    ki,               \* index of the loop of line 115
    member_dict,      \* line 113
    all_members,      \* line 114
    full_name,        \* local of get_memberships, lives across iterations
    access_level,     \* local of get_memberships, lives across iterations
    stdout,           \* lines written to sys.stdout
    stderr,           \* lines written to sys.stderr
    exit_code,        \* process exit status, -1 while running
    calls             \* the requests sent to the server so far

vars == <<gl, group, group_id_opt, group_id, user, shared_group, json_output, verbose, pc,
          base_group, groups_in_scope, gi, memberships, shares, ki,
          member_dict, all_members, full_name, access_level, stdout, stderr,
          exit_code, calls>>

args == <<gl, group, group_id_opt, user, shared_group, json_output, verbose>>

---------------------------------------------------------------------------
(* Python values *)

\* None: distinct from every str (a str holds character codes >= 0).
None == <<-1>>

\* A local name that has not been assigned yet; reading it raises NameError.
Unbound == <<-2>>

\* bool(v) for a str or None.
Truthy(v) == v # None /\ v # <<>>

\* a < b on two str: the first differing character decides, a proper prefix
\* is smaller.
LexLess(a, b) ==
    \E i \in 1..Len(b) :
        /\ i - 1 <= Len(a)
        /\ \A j \in 1..(i - 1) : a[j] = b[j]
        /\ (Len(a) = i - 1 \/ a[i] < b[i])

\* The position of x in the sorted list t: after every element not above it.
InsertSorted(x, t) ==
    LET above == {i \in 1..Len(t) : LexLess(x, t[i])}
        k == IF above = {} THEN Len(t) + 1
             ELSE CHOOSE i \in above : \A j \in above : i <= j
    IN SubSeq(t, 1, k - 1) \o <<x>> \o SubSeq(t, k, Len(t))

\* sorted(s) on a list of str.
RECURSIVE sorted(_)
sorted(s) ==
    IF s = <<>> THEN <<>>
    ELSE InsertSorted(s[Len(s)], sorted(SubSeq(s, 1, Len(s) - 1)))

\* set(s) on a list.
set(s) == {s[i] : i \in 1..Len(s)}

\* list(S) on a set: the elements in some order.
RECURSIVE list(_)
list(S) ==
    IF S = {} THEN <<>>
    ELSE LET x == CHOOSE y \in S : TRUE IN <<x>> \o list(S \ {x})

\* s.strip(c) for a one-character c.
RECURSIVE strip(_, _)
strip(s, c) ==
    IF s = <<>> THEN s
    ELSE IF s[1] = c THEN strip(Tail(s), c)
    ELSE IF s[Len(s)] = c THEN strip(SubSeq(s, 1, Len(s) - 1), c)
    ELSE s

\* d[k] = v on a dict with str keys.
DictPut(d, k, v) == [x \in DOMAIN d \cup {k} |-> IF x = k THEN v ELSE d[x]]

---------------------------------------------------------------------------
(* The str literals of the program, and the names used by the worlds *)

Str_nlGroup  == <<10, 71, 114, 111, 117, 112>>                  \* '\nGroup'
Str_Project  == <<80, 114, 111, 106, 101, 99, 116>>             \* 'Project'
Str_unknown  == <<117, 110, 107, 110, 111, 119, 110>>           \* 'unknown'
Str_tab      == <<9>>                                           \* '\t'
Str_nl       == <<10>>                                          \* '\n'
Str_open     == <<32, 40>>                                      \* ' ('
Str_close    == <<41>>                                          \* ')'
Str_has      == <<32, 104, 97, 115, 32>>                        \* ' has '
Str_dot      == <<46>>                                          \* '.'

ACCESS_LEVELS_buggy ==
    (10 :> <<71, 117, 101, 115, 116, 32, 97, 99, 99, 101, 115, 115>>) @@
    (20 :> <<82, 101, 112, 111, 114, 116, 101, 114, 32, 97, 99, 99, 101, 115, 115>>) @@
    (30 :> <<77, 97, 105, 110, 116, 97, 105, 110, 101, 114, 32, 97, 99, 99, 101, 115, 115>>) @@
    (40 :> <<77, 97, 105, 110, 116, 97, 105, 110, 101, 114, 32, 97, 99, 99, 101, 115, 115>>) @@
    (50 :> <<79, 119, 110, 101, 114, 32, 97, 99, 99, 101, 115, 115>>)

ACCESS_LEVELS ==
    (10 :> <<71, 117, 101, 115, 116, 32, 97, 99, 99, 101, 115, 115>>) @@
    (20 :> <<82, 101, 112, 111, 114, 116, 101, 114, 32, 97, 99, 99, 101, 115, 115>>) @@
    (30 :> <<68, 101, 118, 101, 108, 111, 112, 101, 114, 32, 97, 99, 99, 101, 115, 115>>) @@
    (40 :> <<77, 97, 105, 110, 116, 97, 105, 110, 101, 114, 32, 97, 99, 99, 101, 115, 115>>) @@
    (50 :> <<79, 119, 110, 101, 114, 32, 97, 99, 99, 101, 115, 115>>)

---------------------------------------------------------------------------
(* python-gitlab objects and the requests of the program *)

\* A RESTObject: its class, its id, and whether it came from a GET of the
\* single group (which carries shared_with_groups) or from a listing (which
\* does not: "only subgroups have the 'shared_with_groups' attribute", and
\* subgroups are the ones re-fetched at line 91).
Obj(cls, id, detail) == [cls |-> cls, id |-> id, detail |-> detail]

\* RESTObject.__eq__ / __hash__: two objects with an id are the same dict key
\* when their ids are equal.
ObjEq(a, b) == a.id = b.id

\* d[k] = v on a dict keyed by objects, kept in insertion order: an equal
\* key keeps its place (and the key object first stored).
ObjDictPut(d, k, v) ==
    IF \E i \in 1..Len(d) : ObjEq(d[i].key, k)
    THEN [i \in 1..Len(d) |->
            IF ObjEq(d[i].key, k) THEN [key |-> d[i].key, val |-> v] ELSE d[i]]
    ELSE Append(d, [key |-> k, val |-> v])

\* The size of the one page a list() without all=True returns (GitLab's
\* default per_page); every other listing of the program passes all=True.
PerPage == 20

FirstPage(l) == SubSeq(l, 1, IF Len(l) < PerPage THEN Len(l) ELSE PerPage)

\* gl.groups.list(all=True), line 48
groups_list(s) ==
    [i \in 1..Len(s.all_groups) |-> Obj("Group", s.all_groups[i], FALSE)]

\* gl.groups.get(id).subgroups.list(), line 23
subgroups_list(s, id) ==
    LET page == FirstPage(s.groups[id].subgroups)
    IN [i \in 1..Len(page) |-> Obj("GroupSubgroup", page[i], FALSE)]

\* group.projects.list(all=True), line 107
projects_list(s, id) ==
    LET l == s.groups[id].projects
    IN [i \in 1..Len(l) |-> Obj("GroupProject", l[i], FALSE)]

\* key.attributes, line 116
attributes(s, key) ==
    IF key.cls = "GroupProject"
    THEN [id |-> key.id, name |-> s.projects[key.id].name,
          path |-> s.projects[key.id].path_with_namespace]
    ELSE [id |-> key.id, name |-> s.groups[key.id].name,
          path |-> s.groups[key.id].full_path]

\* get_all_groups, lines 18-26: every listed subgroup, each followed by the
\* result of the recursive call on it.
RECURSIVE get_all_groups(_, _), get_all_groups_loop(_, _)
get_all_groups_loop(s, l) ==
    IF l = <<>> THEN <<>>
    ELSE <<l[1]>> \o get_all_groups(s, l[1].id) \o get_all_groups_loop(s, Tail(l))

get_all_groups(s, id) == get_all_groups_loop(s, subgroups_list(s, id))

---------------------------------------------------------------------------
(* The report, lines 115-173 *)

\* print(line, file=print_outputs) on the pair of streams: print_outputs is
\* sys.stderr with --json-output and sys.stdout without (lines 42-45).
print_outputs(st, line) ==
    IF json_output THEN [st EXCEPT !.stderr = Append(@, line)]
    ELSE [st EXCEPT !.stdout = Append(@, line)]

\* f"\t{full_name} has {access_level}.", lines 164 and 166
MemberText(fn, al) == Str_tab \o fn \o Str_has \o al \o Str_dot

\* not (user or shared_group), lines 135 and 165
Unfiltered == ~(Truthy(user) \/ Truthy(shared_group))

\* Line 162: (user and user == name) or (shared_group and shared_group == name)
filter_matches_prefix(name) ==
    \/ (Truthy(user) /\ Len(user) <= Len(name) /\ SubSeq(name, 1, Len(user)) = user)
    \/ (Truthy(shared_group) /\ shared_group = name)

filter_matches(name) ==
    \/ (Truthy(user) /\ user = name)
    \/ (Truthy(shared_group) /\ shared_group = name)

\* One iteration of the loop of line 137, on the locals and streams in st,
\* for the member m of the scope named sname (header texts t, id).  An
\* exception ends the run: st.raised names it and the rest is skipped.
ProcessMember(st, t, sname, id, m) ==
    IF st.raised # "" THEN st
    ELSE
    LET isUser == m.cls \in {"GroupMember", "ProjectMember"}
        isDict == m.cls = "dict"
        type == IF isUser THEN "user" ELSE IF isDict THEN "group" ELSE "unknown"
        name == IF isUser THEN m.username
                ELSE IF isDict THEN m.group_name ELSE Str_unknown
        fn == IF isUser THEN m.name \o Str_open \o name \o Str_close
              ELSE IF isDict
                   THEN name \o Str_open \o m.group_full_path \o Str_close
                   ELSE st.full_name
        level == IF isUser THEN m.access_level
                 ELSE IF isDict THEN m.group_access_level ELSE 0
    IN
    IF type # "unknown" /\ level \notin DOMAIN ACCESS_LEVELS
    THEN [st EXCEPT !.full_name = fn, !.raised = "KeyError"]
    ELSE
    LET al == IF type # "unknown" THEN ACCESS_LEVELS[level] ELSE st.access_level
        entry == [type |-> type,
                  full_name |-> IF type # "unknown" THEN fn ELSE None,
                  access_level |-> IF type # "unknown" THEN al ELSE None,
                  details |-> IF type = "unknown" THEN m.raw ELSE None]
        \* line 152: print('Unknown type: ', m) has no file= argument
        st1 == [st EXCEPT
                  !.stdout = IF type = "unknown"
                             THEN Append(@, [kind |-> "unknown_type", text |-> m.raw])
                             ELSE @,
                  !.full_name = fn,
                  !.access_level = al,
                  !.member_dict[sname].members = DictPut(@, name, entry),
                  !.all_members = Append(@, name)]
        matching == filter_matches(name)
    IN
    IF matching
    THEN LET st2 == print_outputs(st1,
                      [kind |-> "matching", t |-> t, name |-> sname, id |-> id])
         IN IF fn = Unbound THEN [st2 EXCEPT !.raised = "NameError"]
            ELSE print_outputs(st2, [kind |-> "member", text |-> MemberText(fn, al)])
    ELSE IF Unfiltered
    THEN IF fn = Unbound THEN [st1 EXCEPT !.raised = "NameError"]
         ELSE [st1 EXCEPT !.print_msgs = Append(@, MemberText(fn, al))]
    ELSE st1

\* The loop of line 137 over the list ms.
RECURSIVE ProcessMembers(_, _, _, _, _)
ProcessMembers(st, t, sname, id, ms) ==
    IF ms = <<>> THEN st
    ELSE ProcessMembers(ProcessMember(st, t, sname, id, ms[1]), t, sname, id, Tail(ms))

\* The loop of line 169 over the sorted messages.
RECURSIVE print_all(_, _)
print_all(st, msgs) ==
    IF msgs = <<>> THEN st
    ELSE print_all(print_outputs(st, [kind |-> "member", text |-> msgs[1]]), Tail(msgs))

\* One iteration of the loop of line 115, for memberships entry e.
ProcessScope(st, e) ==
    LET g == attributes(gl, e.key)
        t == IF e.key.cls = "GroupProject" THEN Str_Project ELSE Str_nlGroup
        st0 == [st EXCEPT
                  !.print_msgs = <<>>,
                  !.member_dict = DictPut(@, g.name,
                      [type |-> strip(t, Str_nl[1]), id |-> g.id, members |-> <<>>])]
    IN
    IF e.val # <<>>
    THEN LET st1 == IF Unfiltered
                    THEN print_outputs(st0, [kind |-> "header", t |-> t,
                             name |-> g.name, path |-> g.path, id |-> g.id])
                    ELSE st0
             st2 == ProcessMembers(st1, t, g.name, g.id, e.val)
         IN IF st2.raised # "" THEN st2
            ELSE print_all(st2, sorted(st2.print_msgs))
    ELSE IF verbose
    THEN print_outputs(st0, [kind |-> "no_memberships", t |-> t, name |-> g.name,
             id |-> g.id, matching |-> Truthy(user)])
    ELSE st0

\* The state the report works on, before its first iteration.
ReportStart(out, err) ==
    [member_dict |-> <<>>, all_members |-> <<>>, full_name |-> Unbound,
     access_level |-> Unbound, print_msgs |-> <<>>, stdout |-> out,
     stderr |-> err, raised |-> ""]

\* Lines 175-177: the trailer.
RECURSIVE print_keys(_, _)
print_keys(st, ks) ==
    IF ks = <<>> THEN st
    ELSE print_keys(print_outputs(st, [kind |-> "trailer", text |-> ks[1]]), Tail(ks))

Trailer_every_entry(st) ==
    print_keys(print_outputs(st, [kind |-> "trailer_header"]), sorted(st.all_members))

Trailer(st) ==
    print_keys(print_outputs(st, [kind |-> "trailer_header"]),
               sorted(list(set(st.all_members))))

\* Lines 179-180: json.dumps(member_dict) to sys.stdout.
JsonOutput(st) ==
    IF json_output
    THEN [st EXCEPT !.stdout = Append(@, [kind |-> "json", doc |-> st.member_dict])]
    ELSE st

---------------------------------------------------------------------------
(* The program *)

NoObj == Obj("Unbound", 0, FALSE)

\* What every run starts from, whatever the server and the arguments.
\* group_id 0 stands for an option that was not given (a falsy value).
InitRun ==
    /\ pc = "start"
    /\ group_id = group_id_opt
    /\ base_group = NoObj
    /\ groups_in_scope = <<>>
    /\ gi = 1
    /\ memberships = <<>>
    /\ shares = <<>>
    /\ ki = 1
    /\ member_dict = <<>>
    /\ all_members = <<>>
    /\ full_name = Unbound
    /\ access_level = Unbound
    /\ stdout = <<>>
    /\ stderr = <<>>
    /\ exit_code = -1
    /\ calls = <<>>

\* Line 60: [g for g in all_groups if g.attributes['name'] == group]
groups_named_any(s, all_groups, name) == all_groups

groups_named(s, all_groups, name) ==
    SelectSeq(all_groups, LAMBDA g : s.groups[g.id].name = name)

\* An uncaught exception: the traceback goes to sys.stderr, the status is 1.
Traceback(err, exc) == Append(err, [kind |-> "traceback", text |-> exc])

\* Lines 38-76: the root group from --group-id or --group.
Resolve ==
    /\ pc = "start"
    /\ LET all_groups == groups_list(gl)
           err0 == IF verbose THEN Append(stderr, [kind |-> "all_groups"]) ELSE stderr
           st0 == [stdout |-> stdout, stderr |-> err0]
           st1 == IF group_id # 0 /\ Truthy(group)
                  THEN print_outputs(st0, [kind |-> "both_given"])
                  ELSE st0
           base_groups == groups_named(gl, all_groups, group)
       IN
       IF group_id # 0
       THEN \* line 56
            /\ calls' = calls \o <<[op |-> "groups.list", id |-> 0],
                                   [op |-> "groups.get", id |-> group_id]>>
            /\ UNCHANGED group_id
            /\ IF group_id \in DOMAIN gl.groups
               THEN /\ base_group' = Obj("Group", group_id, TRUE)
                    /\ pc' = "walk"
                    /\ exit_code' = exit_code
                    /\ stdout' = st1.stdout
                    /\ stderr' = st1.stderr
               ELSE /\ base_group' = base_group
                    /\ pc' = "exited"
                    /\ exit_code' = 1
                    /\ stdout' = st1.stdout
                    /\ stderr' = Traceback(st1.stderr, "GitlabGetError")
       ELSE IF Truthy(group)
       THEN /\ calls' = Append(calls, [op |-> "groups.list", id |-> 0])
            /\ IF Len(base_groups) > 1
               THEN \* lines 62-67
                    LET st2 == print_outputs(st1, [kind |-> "multiple"])
                    IN /\ stdout' = st2.stdout
                       /\ stderr' = IF verbose
                                    THEN st2.stderr \o
                                         [i \in 1..Len(base_groups) |->
                                            [kind |-> "candidate", id |-> base_groups[i].id]]
                                    ELSE st2.stderr
                       /\ pc' = "exited"
                       /\ exit_code' = 1
                       /\ UNCHANGED <<base_group, group_id>>
               ELSE IF Len(base_groups) = 0
               THEN \* line 69 raises IndexError, lines 74-76
                    LET st2 == print_outputs(st1, [kind |-> "not_found"])
                    IN /\ stdout' = st2.stdout
                       /\ stderr' = st2.stderr
                       /\ pc' = "exited"
                       /\ exit_code' = 1
                       /\ UNCHANGED <<base_group, group_id>>
               ELSE \* lines 69-73
                    /\ base_group' = base_groups[1]
                    /\ group_id' = base_groups[1].id
                    /\ stdout' = st1.stdout
                    /\ stderr' = IF verbose
                                 THEN Append(st1.stderr,
                                        [kind |-> "single_found", id |-> base_groups[1].id])
                                 ELSE st1.stderr
                    /\ pc' = "walk"
                    /\ exit_code' = exit_code
       ELSE \* neither option: nothing is assigned
            /\ calls' = Append(calls, [op |-> "groups.list", id |-> 0])
            /\ stdout' = st1.stdout
            /\ stderr' = st1.stderr
            /\ pc' = "walk"
            /\ UNCHANGED <<base_group, group_id, exit_code>>
    /\ UNCHANGED <<args, groups_in_scope, gi, memberships, shares, ki,
                   member_dict, all_members, full_name, access_level>>

\* Line 78: [base_group] is evaluated first, and raises NameError when
\* base_group was never assigned; then the walk.
Walk ==
    /\ pc = "walk"
    /\ IF base_group = NoObj
       THEN /\ pc' = "exited"
            /\ exit_code' = 1
            /\ stderr' = Traceback(stderr, "NameError")
            /\ UNCHANGED <<groups_in_scope, calls>>
       ELSE /\ groups_in_scope' = <<base_group>> \o get_all_groups(gl, group_id)
            /\ calls' = Append(calls, [op |-> "get_all_groups", id |-> group_id])
            /\ pc' = "fetch"
            /\ UNCHANGED <<exit_code, stderr>>
    /\ UNCHANGED <<args, group_id, base_group, gi, memberships, shares, ki,
                   member_dict, all_members, full_name, access_level, stdout>>

\* Lines 107-109 for the projects ps of one group, on the dict d.
RECURSIVE FetchProjects(_, _)
FetchProjects(d, ps) ==
    IF ps = <<>> THEN d
    ELSE FetchProjects(ObjDictPut(d, ps[1], gl.projects[ps[1].id].members), Tail(ps))

\* Lines 85-109: one iteration of the loop over groups_in_scope.
FetchStep ==
    /\ pc = "fetch"
    /\ gi <= Len(groups_in_scope)
    /\ LET g0 == groups_in_scope[gi]
           g == IF g0.cls = "GroupSubgroup" THEN Obj("Group", g0.id, TRUE) ELSE g0
           rec == gl.groups[g.id]
           ps == projects_list(gl, g.id)
       IN /\ stderr' = IF verbose
                       THEN Append(stderr, [kind |-> "found_group", text |-> rec.name])
                       ELSE stderr
          /\ memberships' =
                FetchProjects(
                    ObjDictPut(memberships, g,
                        IF g.detail THEN rec.members \o rec.shared_with_groups
                        ELSE rec.members),
                    ps)
          /\ shares' = ObjDictPut(shares, g,
                          IF g.detail THEN rec.shared_with_groups ELSE None)
          /\ calls' = calls
                      \o (IF g0.cls = "GroupSubgroup"
                          THEN <<[op |-> "groups.get", id |-> g.id]>> ELSE <<>>)
                      \o <<[op |-> "group.members.list", id |-> g.id]>>
                      \* line 95 lists the members, then fails on the missing
                      \* attribute; line 98 lists them again
                      \o (IF g.detail THEN <<>>
                          ELSE <<[op |-> "group.members.list", id |-> g.id]>>)
                      \o [i \in 1..Len(ps) |-> [op |-> "project.members.list", id |-> ps[i].id]]
    /\ gi' = gi + 1
    /\ pc' = IF gi = Len(groups_in_scope) THEN "report" ELSE "fetch"
    /\ UNCHANGED <<args, group_id, base_group, groups_in_scope, ki, member_dict,
                   all_members, full_name, access_level, stdout, exit_code>>

\* The locals and streams of the report, as the record the report works on.
ReportState ==
    [member_dict |-> member_dict, all_members |-> all_members,
     full_name |-> full_name, access_level |-> access_level,
     print_msgs |-> <<>>, stdout |-> stdout, stderr |-> stderr, raised |-> ""]

\* Lines 115-173: one iteration of the loop over memberships.
ReportStep ==
    /\ pc = "report"
    /\ ki <= Len(memberships)
    /\ LET st == ProcessScope(ReportState, memberships[ki])
       IN /\ member_dict' = st.member_dict
          /\ all_members' = st.all_members
          /\ full_name' = st.full_name
          /\ access_level' = st.access_level
          /\ stdout' = st.stdout
          /\ stderr' = IF st.raised # "" THEN Traceback(st.stderr, st.raised) ELSE st.stderr
          /\ pc' = IF st.raised # "" THEN "exited"
                   ELSE IF ki = Len(memberships) THEN "finish" ELSE "report"
          /\ exit_code' = IF st.raised # "" THEN 1 ELSE exit_code
    /\ ki' = ki + 1
    /\ UNCHANGED <<args, group_id, base_group, groups_in_scope, gi, memberships,
                   shares, calls>>

\* Lines 175-180: the trailer, the JSON document, and the normal end.
Finish ==
    /\ pc = "finish"
    /\ LET st == JsonOutput(Trailer(ReportState))
       IN /\ stdout' = st.stdout
          /\ stderr' = st.stderr
    /\ pc' = "exited"
    /\ exit_code' = 0
    /\ UNCHANGED <<args, group_id, base_group, groups_in_scope, gi, memberships,
                   shares, ki, member_dict, all_members, full_name, access_level,
                   calls>>

Next == Resolve \/ Walk \/ FetchStep \/ ReportStep \/ Finish

---------------------------------------------------------------------------
(* The servers and arguments of the runs that are checked *)

N_Eng  == <<69, 110, 103>>       \* 'Eng'
N_Core == <<67, 111, 114, 101>>  \* 'Core'
N_Lib  == <<76, 105, 98>>        \* 'Lib'
N_X    == <<88>>                 \* 'X'
N_Al   == <<65, 108>>            \* 'Al'
N_Bo   == <<66, 111>>            \* 'Bo'
N_P    == <<80>>                 \* 'P'
N_a    == <<97>>                 \* 'a'
N_ab   == <<97, 98>>             \* 'ab'
N_b    == <<98>>                 \* 'b'
N_path == <<112>>                \* 'p'

\* The records a member listing holds: a GroupMember or ProjectMember
\* object, a shared_with_groups dict, or anything else.
GroupMember(username, name, level) ==
    [cls |-> "GroupMember", username |-> username, name |-> name, access_level |-> level]
ProjectMember(username, name, level) ==
    [cls |-> "ProjectMember", username |-> username, name |-> name, access_level |-> level]
Share(name, path, level) ==
    [cls |-> "dict", group_name |-> name, group_full_path |-> path,
     group_access_level |-> level]
Other(raw) == [cls |-> "other", raw |-> raw]

GroupRec(name, subgroups, members, shared, projects) ==
    [name |-> name, full_path |-> name, subgroups |-> subgroups, members |-> members,
     shared_with_groups |-> shared, projects |-> projects]

\* The longest member list of the root group in the report runs.
MaxMembers == 2

\* The number of groups of the servers in the walk runs.
MaxGroups == 4

MemberPool ==
    { GroupMember(N_a, N_Bo, 40), GroupMember(N_ab, N_Al, 30),
      GroupMember(N_b, N_Al, 25), GroupMember(N_b, N_Al, 50), Other(N_X) }

\* What tells two records of the pool apart on the server: the user.
PoolKey(m) == IF m.cls = "other" THEN m.raw ELSE m.username

\* The lists of up to n records of S, no user twice in a list.
RECURSIVE ListsUpTo(_, _)
ListsUpTo(S, n) ==
    IF n = 0 THEN {<<>>}
    ELSE LET shorter == ListsUpTo(S, n - 1)
         IN shorter \cup
            UNION { {Append(l, x) :
                        x \in {y \in S : \A i \in 1..(n - 1) : PoolKey(l[i]) # PoolKey(y)}} :
                    l \in {k \in shorter : Len(k) = n - 1} }

\* The subgroup of the report runs: its name, members and shares.
SubOptions ==
    { [name |-> N_Core, members |-> <<GroupMember(N_b, N_Bo, 30)>>,
       shared |-> <<Share(N_P, N_path, 20)>>],
      [name |-> N_Core, members |-> <<GroupMember(N_a, N_Al, 10)>>,
       shared |-> <<Share(N_a, N_path, 50)>>],
      [name |-> N_Eng, members |-> <<GroupMember(N_ab, N_Al, 20)>>, shared |-> <<>>],
      [name |-> N_Core, members |-> <<Other(N_X)>>, shared |-> <<>>],
      [name |-> N_Core, members |-> <<>>, shared |-> <<Share(N_P, N_path, 25)>>],
      [name |-> N_Core, members |-> <<>>, shared |-> <<>>] }

\* The project of the root group in the report runs: its name and members.
ProjectOptions ==
    { [name |-> N_X, members |-> <<>>],
      [name |-> N_Eng, members |-> <<ProjectMember(N_a, N_Bo, 20)>>],
      [name |-> N_X, members |-> <<ProjectMember(N_ab, N_Al, 50)>>] }

\* Group 1 'Eng' with subgroup 2 and project 3; ids are unique over groups
\* and projects.
ReportServer(ms, sub, proj) ==
    [all_groups |-> <<1, 2>>,
     groups |-> (1 :> GroupRec(N_Eng, <<2>>, ms, <<Share(N_P, N_path, 20)>>, <<3>>))
             @@ (2 :> GroupRec(sub.name, <<>>, sub.members, sub.shared, <<>>)),
     projects |-> (3 :> [name |-> proj.name, path_with_namespace |-> proj.name,
                         members |-> proj.members])]

FilterOptions ==
    { <<None, None>>, <<N_a, None>>, <<None, N_P>>, <<Str_unknown, None>>,
      <<N_ab, N_P>>, << <<>>, None >> }

InitReport ==
    /\ gl \in {ReportServer(ms, sub, proj) :
                 ms \in ListsUpTo(MemberPool, MaxMembers),
                 sub \in SubOptions, proj \in ProjectOptions}
    /\ \E a \in {<<N_Eng, 0>>, <<None, 1>>} : group = a[1] /\ group_id_opt = a[2]
    /\ \E f \in FilterOptions : user = f[1] /\ shared_group = f[2]
    /\ json_output \in BOOLEAN
    /\ verbose \in BOOLEAN
    /\ InitRun

Spec == InitReport /\ [][Next]_vars

\* A subgroup listing over the groups S: up to two entries, repeats allowed.
Listings(S) == {<<>>} \cup {<<a>> : a \in S} \cup {<<a, b>> : a \in S, b \in S}

\* The acyclic listings of the groups n..MaxGroups: a group lists only
\* groups with a larger id.
RECURSIVE Shapes(_)
Shapes(n) ==
    IF n > MaxGroups THEN {<<>>}
    ELSE {(n :> l) @@ f : l \in Listings((n + 1)..MaxGroups), f \in Shapes(n + 1)}

GroupName(g) == IF g = 1 THEN N_Eng ELSE IF g = 2 THEN N_Core ELSE N_Lib

WalkServer(subs) ==
    [all_groups |-> [i \in 1..Len(subs) |-> i],
     groups |-> [g \in DOMAIN subs |->
                   GroupRec(GroupName(g), subs[g], <<GroupMember(N_a, N_Al, 30)>>,
                            <<>>, <<>>)],
     projects |-> <<>>]

\* Group 1 with k subgroups 2..k+1, all leaves.
WideShape(k) == [g \in 1..(k + 1) |-> IF g = 1 THEN [i \in 1..k |-> i + 1] ELSE <<>>]

InitWalk ==
    /\ \/ /\ gl \in {WalkServer(subs) : subs \in Shapes(1)}
          /\ \E a \in {<<None, 0>>, <<N_Eng, 0>>, <<N_Core, 0>>, <<N_Lib, 0>>,
                        <<N_X, 0>>, <<None, 1>>, <<N_Eng, 2>>, <<None, MaxGroups + 1>>} :
                group = a[1] /\ group_id_opt = a[2]
          /\ verbose \in BOOLEAN
       \/ /\ gl \in {WalkServer(WideShape(k)) : k \in {PerPage, PerPage + 1}}
          /\ group = None
          /\ group_id_opt = 1
          /\ verbose = FALSE
    /\ user = None
    /\ shared_group = None
    /\ json_output = FALSE
    /\ InitRun

SpecWalk == InitWalk /\ [][Next]_vars

---------------------------------------------------------------------------
(* What the properties speak about *)

Ids(objs) == [i \in 1..Len(objs) |-> objs[i].id]

\* The subgroups the server holds for group g, and all below them.
Children(g) == set(gl.groups[g].subgroups)

RECURSIVE Descendants(_)
Descendants(g) == UNION {{c} \cup Descendants(c) : c \in Children(g)}

\* The server's groups form a tree: no listing repeats a group and no
\* group is listed by two parents.
IsTree ==
    /\ \A g \in DOMAIN gl.groups :
          Cardinality(Children(g)) = Len(gl.groups[g].subgroups)
    /\ \A g, h \in DOMAIN gl.groups : g # h => Children(g) \cap Children(h) = {}

Walked == pc \in {"fetch", "report", "finish"} \/ (pc = "exited" /\ groups_in_scope # <<>>)

Position(w, x) == CHOOSE i \in 1..Len(w) : w[i] = x

Lines == stdout \o stderr

LinesOfKind(k) == SelectSeq(Lines, LAMBDA l : l.kind = k)

Count(seq, P(_)) == Len(SelectSeq(seq, P))

---------------------------------------------------------------------------
(* C1 *)

\* C1 (as claimed): on every server whose groups form a finite tree, once
\* line 78 has run, groups_in_scope is the root followed by every proper
\* descendant of the root exactly once, never the root, each group before
\* all of its descendants, and the whole subtree of a subgroup before the
\* next sibling in its parent's listing.
C1_TraversalComplete ==
    (Walked /\ IsTree) =>
        LET root == base_group.id
            w == Ids(Tail(groups_in_scope))
        IN /\ groups_in_scope[1] = base_group
           /\ set(w) = Descendants(root)
           /\ Len(w) = Cardinality(Descendants(root))
           /\ root \notin set(w)
           /\ \A x \in set(w) : \A y \in Descendants(x) \cap set(w) :
                 Position(w, x) < Position(w, y)
           /\ \A g \in {root} \cup set(w) :
                 LET l == gl.groups[g].subgroups
                 IN \A i, j \in 1..Len(l) :
                       (i < j /\ l[i] \in set(w) /\ l[j] \in set(w)) =>
                          \A y \in ({l[i]} \cup Descendants(l[i])) \cap set(w) :
                             Position(w, y) < Position(w, l[j])

\* The same statement for the servers on which no group has more subgroups
\* than one page holds.
C1_WithinOnePage ==
    (\A g \in DOMAIN gl.groups : Len(gl.groups[g].subgroups) <= PerPage)
        => C1_TraversalComplete

---------------------------------------------------------------------------
(* C7 *)

NameOnly == group_id_opt = 0 /\ Truthy(group)

NeitherGiven == group_id_opt = 0 /\ ~Truthy(group)

\* The groups of the full listing whose name is exactly --group.
NameMatches == {g \in set(gl.all_groups) : gl.groups[g].name = group}

NothingAfterResolution ==
    /\ groups_in_scope = <<>>
    /\ memberships = <<>>
    /\ \A i \in 1..Len(calls) : calls[i].op = "groups.list"
    /\ \A i \in 1..Len(Lines) : Lines[i].kind \notin {"trailer_header", "trailer", "json",
                                                        "header", "matching", "member"}

\* C7: with only --group given, zero or several groups of exactly that name
\* end the run with status 1 and exactly one such group becomes the root;
\* with neither option the run ends with a non-zero status; in each failing
\* case nothing is walked, fetched or reported.
C7_ResolutionFatal ==
    /\ (NameOnly /\ Cardinality(NameMatches) # 1) =>
          /\ pc \in {"start", "exited"}
          /\ pc = "exited" => exit_code = 1
          /\ NothingAfterResolution
    /\ (NameOnly /\ Cardinality(NameMatches) = 1 /\ pc # "start") =>
          /\ NameMatches = {base_group.id}
          /\ group_id = base_group.id
          /\ pc # "walk" => (groups_in_scope # <<>> /\ groups_in_scope[1] = base_group)
    /\ NeitherGiven =>
          /\ pc \in {"start", "walk", "exited"}
          /\ pc = "exited" => (exit_code # 0 /\ exit_code # -1)
          /\ NothingAfterResolution

C7_Witness ==
    /\ NameOnly
    /\ Cardinality(NameMatches) > 1
    /\ pc = "exited"
    /\ exit_code = 1

---------------------------------------------------------------------------
(* C10 *)

\* C10 (as claimed): whatever the subgroup listings repeat, groups_in_scope
\* holds each group at most once, the members of each group are requested
\* at most once, and no scope gets two headers.
C10_NoRevisit ==
    /\ \A i, j \in 1..Len(groups_in_scope) :
          groups_in_scope[i].id = groups_in_scope[j].id => i = j
    /\ \A i, j \in 1..Len(calls) :
          (calls[i].op = "group.members.list" /\ calls[i] = calls[j]) => i = j
    /\ \A i, j \in 1..Len(Lines) :
          (Lines[i].kind = "header" /\ Lines[j].kind = "header"
             /\ Lines[i].id = Lines[j].id) => i = j

---------------------------------------------------------------------------
(* The snapshot and the two renderings of it *)

\* The stream the narrative is written to, and what the run wrote to it.
Narrative == IF json_output THEN stderr ELSE stdout

IsUserOrShare(m) == m.cls \in {"GroupMember", "ProjectMember", "dict"}

LevelOf(m) == IF m.cls = "dict" THEN m.group_access_level ELSE m.access_level

\* The identity key of a record: the username, the name of the sharing
\* group, or 'unknown' for a record that is neither.
KeyOf(m) ==
    IF m.cls = "dict" THEN m.group_name
    ELSE IF m.cls = "other" THEN Str_unknown ELSE m.username

\* 'display (key)' for a user, 'name (path)' for a share.
DisplayOf(m) ==
    IF m.cls = "dict" THEN m.group_name \o Str_open \o m.group_full_path \o Str_close
    ELSE m.name \o Str_open \o m.username \o Str_close

Fetched == {memberships[i] : i \in 1..Len(memberships)}

Records(e) == set(e.val)

HasUnknown == \E e \in Fetched : \E m \in Records(e) : ~IsUserOrShare(m)

HasBadLevel ==
    \E e \in Fetched : \E m \in Records(e) :
        IsUserOrShare(m) /\ LevelOf(m) \notin {10, 20, 30, 40, 50}

FetchDone == pc \in {"report", "finish"} \/ (pc = "exited" /\ memberships # <<>>)

Completed == pc = "exited" /\ exit_code = 0

\* The header a member line of the stream n stands under.
HeaderOf(n, i) ==
    CHOOSE h \in 1..(i - 1) :
        /\ n[h].kind \in {"header", "matching"}
        /\ \A j \in (h + 1)..(i - 1) : n[j].kind \notin {"header", "matching"}

MemberLineIndexes(n) == {i \in 1..Len(n) : n[i].kind = "member"}

\* The membership records the narrative n reports: the id of the scope of
\* the header and the text of the line under it.
NarrativeRecords(n) == {<<n[HeaderOf(n, i)].id, n[i].text>> : i \in MemberLineIndexes(n)}

\* The membership records of a structured document, as the same pairs.
StructuredRecords(doc) ==
    UNION { { <<doc[sn].id,
               Str_tab \o doc[sn].members[k].full_name \o Str_has
                       \o doc[sn].members[k].access_level \o Str_dot>> :
              k \in {x \in DOMAIN doc[sn].members : doc[sn].members[x].type # "unknown"} } :
            sn \in DOMAIN doc }

JsonLines == SelectSeq(stdout, LAMBDA l : l.kind = "json")

---------------------------------------------------------------------------
(* C2 *)

\* C2 (as claimed): in an unfiltered run that completes and emits the
\* structured document, the membership records of the narrative are the
\* membership records of the document.  Stated for the snapshots without a
\* malformed record, which C6 is about.
C2_OutputsAgree ==
    (Completed /\ Unfiltered /\ json_output /\ ~HasUnknown) =>
        /\ Len(JsonLines) = 1
        /\ NarrativeRecords(Narrative) = StructuredRecords(JsonLines[1].doc)

---------------------------------------------------------------------------
(* C3 *)

\* The label the claim gives each level.
LevelWord(level) ==
    CASE level = 10 -> <<71, 117, 101, 115, 116>>                        \* 'Guest'
      [] level = 20 -> <<82, 101, 112, 111, 114, 116, 101, 114>>          \* 'Reporter'
      [] level = 30 -> <<68, 101, 118, 101, 108, 111, 112, 101, 114>>     \* 'Developer'
      [] level = 40 -> <<77, 97, 105, 110, 116, 97, 105, 110, 101, 114>>  \* 'Maintainer'
      [] level = 50 -> <<79, 119, 110, 101, 114>>                         \* 'Owner'

LabelOf(m) == LevelWord(LevelOf(m)) \o <<32, 97, 99, 99, 101, 115, 115>>  \* ' access'

WellLevelled(e) ==
    {m \in Records(e) : IsUserOrShare(m) /\ LevelOf(m) \in {10, 20, 30, 40, 50}}

ExpectedLine(m) == Str_tab \o DisplayOf(m) \o Str_has \o LabelOf(m) \o Str_dot

EntryOfScope(id) == CHOOSE e \in Fetched : e.key.id = id

\* C3: every narrative line and every structured entry made for a user or
\* share record carries the label of that record's level (10 Guest, 20
\* Reporter, 30 Developer, 40 Maintainer, 50 Owner); every record of a
\* completed unfiltered run with such a level has its line; and a fetched
\* record with any other level ends the run with status 1 before the trailer
\* and the structured document.
C3_AccessLevelMapping ==
    /\ \A i \in MemberLineIndexes(Narrative) :
          LET e == EntryOfScope(Narrative[HeaderOf(Narrative, i)].id)
          IN IF \E m \in Records(e) : ~IsUserOrShare(m)
             THEN \E f \in Fetched : \E m \in WellLevelled(f) :
                     Narrative[i].text = ExpectedLine(m)
             ELSE \E m \in WellLevelled(e) : Narrative[i].text = ExpectedLine(m)
    /\ \A sn \in DOMAIN member_dict : \A k \in DOMAIN member_dict[sn].members :
          LET x == member_dict[sn].members[k]
          IN x.type # "unknown" =>
                \E e \in Fetched : \E m \in WellLevelled(e) :
                   /\ attributes(gl, e.key).name = sn
                   /\ KeyOf(m) = k
                   /\ x.type = (IF m.cls = "dict" THEN "group" ELSE "user")
                   /\ x.full_name = DisplayOf(m)
                   /\ x.access_level = LabelOf(m)
    /\ (Completed /\ Unfiltered) =>
          \A e \in Fetched : \A m \in WellLevelled(e) :
             <<e.key.id, ExpectedLine(m)>> \in NarrativeRecords(Narrative)
    /\ HasBadLevel =>
          /\ pc # "finish"
          /\ exit_code # 0
          /\ pc = "exited" => exit_code = 1
          /\ Len(JsonLines) = 0
          /\ Len(LinesOfKind("trailer_header")) = 0

C3_Witness ==
    /\ pc = "exited"
    /\ HasBadLevel
    /\ \E i \in 1..Len(stderr) :
          stderr[i].kind = "traceback" /\ stderr[i].text = "KeyError"
    /\ \E i \in MemberLineIndexes(Narrative) :
          \E e \in Fetched : \E m \in WellLevelled(e) :
             LevelOf(m) = 30 /\ Narrative[i].text = ExpectedLine(m)
    /\ \E e \in Fetched : \E m \in Records(e) :
          IsUserOrShare(m) /\ LevelOf(m) = 25 /\ KeyOf(m) \notin DOMAIN
             member_dict[attributes(gl, e.key).name].members

---------------------------------------------------------------------------
(* C4 *)

Filtered == ~Unfiltered

FilterValues == {v \in {user, shared_group} : Truthy(v)}

\* The scope holds a membership whose key is exactly a filter value.
HoldsFilteredKey(e) == \E m \in Records(e) : KeyOf(m) \in FilterValues

\* C4: with --user or --shared-group set, a 'matching membership' header is
\* written for a scope only if the scope holds a membership whose key equals
\* the filter value, the membership line stands right under its header and
\* is the line of such a membership, every scope holding such a membership
\* has its header and line once the run completes, and the unfiltered header
\* is never written.
C4_FilterExact ==
    Filtered =>
        /\ Len(LinesOfKind("header")) = 0
        /\ \A i \in 1..Len(Narrative) :
              Narrative[i].kind = "matching" =>
                 LET e == EntryOfScope(Narrative[i].id)
                 IN /\ HoldsFilteredKey(e)
                    /\ Completed => i < Len(Narrative)
                    /\ (i < Len(Narrative) /\ Narrative[i + 1].kind # "traceback") =>
                          /\ Narrative[i + 1].kind = "member"
                          /\ \E m \in Records(e) :
                                /\ KeyOf(m) \in FilterValues
                                /\ IsUserOrShare(m) =>
                                      Narrative[i + 1].text = ExpectedLine(m)
        /\ \A i \in MemberLineIndexes(Narrative) :
              i > 1 /\ Narrative[i - 1].kind = "matching"
        /\ Completed =>
              \A e \in Fetched :
                 HoldsFilteredKey(e) =>
                    \E i \in 1..Len(Narrative) :
                       Narrative[i].kind = "matching" /\ Narrative[i].id = e.key.id

IsProperPrefix(a, b) == Len(a) < Len(b) /\ SubSeq(b, 1, Len(a)) = a

C4_Witness ==
    /\ Filtered
    /\ Completed
    /\ \E i \in 1..Len(Narrative) : Narrative[i].kind = "matching"
    /\ \E e \in Fetched :
          /\ ~HoldsFilteredKey(e)
          /\ \E m \in Records(e) : \E v \in FilterValues : IsProperPrefix(v, KeyOf(m))
          /\ \A i \in 1..Len(Narrative) :
                Narrative[i].kind = "matching" => Narrative[i].id # e.key.id

---------------------------------------------------------------------------
(* C5 *)

\* C5 (as claimed): with --json-output, nothing but the structured document
\* is ever written to sys.stdout.
C5_StdoutOnlyJson ==
    json_output => \A i \in 1..Len(stdout) : stdout[i].kind = "json"

---------------------------------------------------------------------------
(* C6 *)

RECURSIVE SumLen(_)
SumLen(ms) ==
    IF ms = <<>> THEN 0
    ELSE Len(SelectSeq(ms[1].val, IsUserOrShare)) + SumLen(Tail(ms))

\* C6 (as claimed): a record that is neither a user nor a share does not end
\* the run: with every level in range the run ends with status 0, the
\* structured output holds for it an entry of type 'unknown' with full_name
\* and access_level null and the raw record as details, and the narrative of
\* an unfiltered run holds no line but the lines of the user and share
\* records.
C6_UnknownRecovered ==
    (FetchDone /\ HasUnknown /\ ~HasBadLevel) =>
        /\ pc = "exited" => exit_code = 0
        /\ Completed =>
              \A e \in Fetched : \A m \in Records(e) :
                 ~IsUserOrShare(m) =>
                    LET sn == attributes(gl, e.key).name
                    IN /\ Str_unknown \in DOMAIN member_dict[sn].members
                       /\ member_dict[sn].members[Str_unknown] =
                             [type |-> "unknown", full_name |-> None,
                              access_level |-> None, details |-> m.raw]
        /\ (Completed /\ Unfiltered) =>
              Cardinality(MemberLineIndexes(Narrative)) = SumLen(memberships)

---------------------------------------------------------------------------
(* C8 *)

TrailerStart(n) == CHOOSE i \in 1..Len(n) : n[i].kind = "trailer_header"

AllKeys == UNION {{KeyOf(m) : m \in Records(e)} : e \in Fetched}

\* C8: a run that completes has written the trailer exactly once, after the
\* last line of the last scope, and the trailer lists the keys of the
\* fetched membership lists, each once, in ascending order, whatever the
\* filters; no other run writes a trailer.
C8_TrailerDedup ==
    /\ Len(LinesOfKind("trailer_header")) > 0 => Completed
    /\ Completed =>
          /\ ki > Len(memberships)
          /\ Len(LinesOfKind("trailer_header")) = 1
          /\ LET n == Narrative
                 t == TrailerStart(n)
             IN /\ \A i \in 1..Len(n) : n[i].kind = "trailer" <=> i > t
                /\ {n[i].text : i \in (t + 1)..Len(n)} = AllKeys
                /\ \A i, j \in (t + 1)..Len(n) : i < j => LexLess(n[i].text, n[j].text)

C8_Witness ==
    /\ Completed
    /\ Filtered
    /\ Cardinality(AllKeys) > 1
    /\ \E e, f \in Fetched : e # f /\ \E m \in Records(e) : \E k \in Records(f) :
          KeyOf(m) = KeyOf(k)
    /\ \E k \in AllKeys :
          k \notin FilterValues /\
          \E i \in 1..Len(Narrative) :
             Narrative[i].kind = "trailer" /\ Narrative[i].text = k

---------------------------------------------------------------------------
(* C9 *)

ArrivalOrders(n) == {p \in [1..n -> 1..n] : \A i, j \in 1..n : p[i] = p[j] => i = j}

\* The entry e with its members in every arrival order.
Rearranged(e) ==
    {[key |-> e.key, val |-> [i \in 1..Len(e.val) |-> e.val[p[i]]]] :
        p \in ArrivalOrders(Len(e.val))}

RECURSIVE Rearrangements(_)
Rearrangements(ms) ==
    IF ms = <<>> THEN {<<>>}
    ELSE {<<e>> \o rest : e \in Rearranged(ms[1]), rest \in Rearrangements(Tail(ms))}

\* The report of lines 113-180 on the snapshot ms, from empty streams.
RECURSIVE RunScopes(_, _)
RunScopes(st, ms) ==
    IF ms = <<>> \/ st.raised # "" THEN st
    ELSE RunScopes(ProcessScope(st, ms[1]), Tail(ms))

RunReport(ms) ==
    LET st == RunScopes(ReportStart(<<>>, <<>>), ms)
    IN IF st.raised # "" THEN st ELSE JsonOutput(Trailer(st))

\* The lines of the report in a stream, without the lines written before it.
ReportLines(n) ==
    SelectSeq(n, LAMBDA l : l.kind \in {"header", "matching", "member",
                                           "no_memberships", "trailer_header", "trailer"})

NarrativeOf(st) == IF json_output THEN st.stderr ELSE st.stdout

SameNarrativeInEveryOrder ==
    \A ms \in Rearrangements(memberships) :
        ReportLines(NarrativeOf(RunReport(ms))) = ReportLines(Narrative)

SortedUnderHeaders ==
    /\ \A e \in Fetched :
          e.val # <<>> =>
             Cardinality({i \in 1..Len(Narrative) :
                 Narrative[i].kind = "header" /\ Narrative[i].id = e.key.id}) = 1
    /\ \A i \in 1..Len(Narrative) :
          (i > 1 /\ Narrative[i].kind = "member" /\ Narrative[i - 1].kind = "member")
             => ~LexLess(Narrative[i].text, Narrative[i - 1].text)

\* C9 (as claimed): in an unfiltered run every scope with a membership gets
\* its header, followed by its lines in ascending order of their text, and
\* a run on the same snapshot with the members of each scope arriving in
\* another order writes the same narrative.
C9_OrderIndependent ==
    (pc = "exited" /\ FetchDone /\ Unfiltered) =>
        /\ Completed => SortedUnderHeaders
        /\ SameNarrativeInEveryOrder

\* The same statement for the snapshots without a malformed record.
C9_WithoutMalformed == ~HasUnknown => C9_OrderIndependent

====
